---- MODULE Spec2Model ----
(***************************************************************************)
(* A model of openframebox/gomigration: the SQLite storage backend         *)
(* (SqliteDriver), the SQLite database it talks to, and the orchestration  *)
(* engine (GoMigration) that drives it.                                    *)
(*                                                                         *)
(* Migration names are the integers 1..MaxName: name n stands for a        *)
(* zero-padded sortable name ("001_a", "002_b", ...), so that the          *)
(* lexicographic order of ORDER BY name is the order of the integers.      *)
(***************************************************************************)
EXTENDS Integers, Sequences, FiniteSets, TLC

\* Number of distinct migration names.
MaxName == 3
\* Longest argument list of one Register call.
MaxRegister == 2

Names == 1 .. MaxName

(***************************************************************************)
(* Values                                                                  *)
(***************************************************************************)

\* A SQL script: "" (the empty string of a generated template), or a
\* statement creating or dropping the schema object of one migration.
EmptySQL == [kind |-> "", obj |-> 0]

\* Every second migration is an unedited template: both scripts empty.
HasScripts(n) == n % 2 = 1

UpScript(n) == IF HasScripts(n) THEN [kind |-> "create", obj |-> n] ELSE EmptySQL

DownScript(n) == IF HasScripts(n) THEN [kind |-> "drop", obj |-> n] ELSE EmptySQL

\* The Migration value of name n (Name, UpScript, DownScript).
Migration(n) == [name |-> n, up |-> UpScript(n), down |-> DownScript(n)]

\* error values: nil, or a message with the migration it names (0: none).
Nil == [msg |-> "nil", name |-> 0]

Err(msg, name) == [msg |-> msg, name |-> name]

\* The names a tracking table is given here.
TableNames == {"migrations", "custom_migrations"}

\* The place of a table in the lists of tables: a schema object has the
\* number of its migration, the tracking tables have 0 and -1.
TableId(name) == IF name = "migrations" THEN 0 ELSE 0 - 1

\* The driver and its database: the driver's migrationTableName; the
\* tracking table of that name (exists or not, and its rows, keyed by name);
\* alt, the tracking table of the other name; the schema objects made by up
\* scripts; order, the tables of sqlite_master in the order of their
\* creation; and the connection's foreign-key enforcement.
EmptyDB ==
    [table |-> FALSE, rows |-> {}, objs |-> {}, fk |-> TRUE, order |-> <<>>,
     migrationTableName |-> "migrations", alt |-> [table |-> FALSE, rows |-> {}]]

\* Reading the rows of a result set goes wrong at row `at`: rows.Next
\* returns false there ("next"), or rows.Scan returns an error ("scan").
NoRowFault == [kind |-> "", at |-> 0]

\* A call context: the database, the number of statements issued so far in
\* the current operation, the statement at which the database fails (0:
\* never), the statement during which ctx is canceled (0: never), and what
\* the operation has done so far.
NewCtx(d, failAt) ==
    [db |-> d, n |-> 0, failAt |-> failAt, cancelAt |-> 0, steps |-> <<>>,
     calls |-> <<>>, rets |-> <<>>, applied |-> <<>>, unapplied |-> <<>>,
     sql |-> <<>>, rowFault |-> NoRowFault]

\* The context of a call during which reading rows goes wrong as rf says.
RowFaultCtx(d, failAt, rf) == [NewCtx(d, failAt) EXCEPT !.rowFault = rf]

\* The context of a call whose ctx is canceled while its statement cancelAt
\* is in flight.
CancelCtx(d, failAt, cancelAt) == [NewCtx(d, failAt) EXCEPT !.cancelAt = cancelAt]

\* ctx was canceled before the next statement: ExecContext and QueryContext
\* return ctx.Err() without sending it.
Canceled(c) == c.cancelAt # 0 /\ c.n + 1 > c.cancelAt

\* The next statement sent to the database is the one that fails.
Fails(c) == c.n + 1 = c.failAt \/ Canceled(c)

Tick(c) == [c EXCEPT !.n = @ + 1]

Log(c, ev, name) == [c EXCEPT !.steps = Append(@, [ev |-> ev, name |-> name])]

Call(c, what) == [c EXCEPT !.calls = Append(@, what)]

\* CleanDatabase's statement `what` (on table t) was carried out.
Stmt(c, what, t) == [c EXCEPT !.sql = Append(@, [stmt |-> what, table |-> t])]

\* A backend method returns r to the engine: its error is the call's result.
Ret(r) == [r EXCEPT !.c.rets = Append(@, r.err)]

\* The elements of a set of names as a sequence, ascending / descending.
RECURSIVE SortAsc(_)
SortAsc(S) ==
    IF S = {} THEN <<>>
    ELSE LET m == CHOOSE x \in S : \A y \in S : x <= y
         IN <<m>> \o SortAsc(S \ {m})

RECURSIVE SortDesc(_)
SortDesc(S) ==
    IF S = {} THEN <<>>
    ELSE LET m == CHOOSE x \in S : \A y \in S : x >= y
         IN <<m>> \o SortDesc(S \ {m})

Range(s) == {s[i] : i \in 1 .. Len(s)}

\* The sequence s without t.
Remove(s, t) == LET Keep(x) == x # t IN SelectSeq(s, Keep)

(***************************************************************************)
(* SqliteDriver                                                            *)
(***************************************************************************)

\* A faulty executeMigrationSQL: db.Exec, which does not look at ctx.
executeMigrationSQL_NoCtx(c, sql) ==
    IF sql.kind = "" THEN [c |-> c, ok |-> TRUE]
    ELSE IF c.n + 1 = c.failAt THEN [c |-> Tick(c), ok |-> FALSE]
    ELSE IF sql.kind = "create"
         THEN IF sql.obj \in c.db.objs
              THEN [c |-> Tick(c), ok |-> FALSE]
              ELSE [c |-> [Tick(c) EXCEPT !.db.objs = @ \cup {sql.obj},
                                          !.db.order = Append(@, sql.obj)],
                    ok |-> TRUE]
         ELSE IF sql.obj \notin c.db.objs
              THEN [c |-> Tick(c), ok |-> FALSE]
              ELSE [c |-> [Tick(c) EXCEPT !.db.objs = @ \ {sql.obj},
                                          !.db.order = Remove(@, sql.obj)],
                    ok |-> TRUE]

\* db.ExecContext of a migration script; the empty script issues nothing.
executeMigrationSQL(c, sql) ==
    IF sql.kind = "" THEN [c |-> c, ok |-> TRUE]
    ELSE IF Fails(c) THEN [c |-> Tick(c), ok |-> FALSE]
    ELSE IF sql.kind = "create"
         THEN IF sql.obj \in c.db.objs
              THEN [c |-> Tick(c), ok |-> FALSE]
              ELSE [c |-> [Tick(c) EXCEPT !.db.objs = @ \cup {sql.obj},
                                          !.db.order = Append(@, sql.obj)],
                    ok |-> TRUE]
         ELSE IF sql.obj \notin c.db.objs
              THEN [c |-> Tick(c), ok |-> FALSE]
              ELSE [c |-> [Tick(c) EXCEPT !.db.objs = @ \ {sql.obj},
                                          !.db.order = Remove(@, sql.obj)],
                    ok |-> TRUE]

\* A faulty insertExecutedMigration: the statement is sent and reported
\* successful, but no row is stored.
insertExecutedMigration_Lost(c, name) ==
    IF Fails(c) \/ ~c.db.table \/ name \in c.db.rows
    THEN [c |-> Tick(c), ok |-> FALSE]
    ELSE [c |-> Tick(c), ok |-> TRUE]

\* A faulty insertExecutedMigration: the name bound to the statement is not
\* the migration's.
insertExecutedMigration_WrongName(c, name) ==
    IF Fails(c) \/ ~c.db.table \/ (name % MaxName) + 1 \in c.db.rows
    THEN [c |-> Tick(c), ok |-> FALSE]
    ELSE [c |-> [Tick(c) EXCEPT !.db.rows = @ \cup {(name % MaxName) + 1}], ok |-> TRUE]

\* A faulty tracking table: name is no primary key, or the statement is an
\* INSERT OR IGNORE, so that recording a name twice succeeds.
insertExecutedMigration_NoKey(c, name) ==
    IF Fails(c) \/ ~c.db.table
    THEN [c |-> Tick(c), ok |-> FALSE]
    ELSE [c |-> [Tick(c) EXCEPT !.db.rows = @ \cup {name}], ok |-> TRUE]

\* INSERT INTO migrations (name, executed_at): name is the primary key.
insertExecutedMigration(c, name) ==
    IF Fails(c) \/ ~c.db.table \/ name \in c.db.rows
    THEN [c |-> Tick(c), ok |-> FALSE]
    ELSE [c |-> [Tick(c) EXCEPT !.db.rows = @ \cup {name}], ok |-> TRUE]

\* A faulty removeExecutedMigration: the DELETE has lost its WHERE clause.
removeExecutedMigration_All(c, name) ==
    IF Fails(c) \/ ~c.db.table
    THEN [c |-> Tick(c), ok |-> FALSE]
    ELSE [c |-> [Tick(c) EXCEPT !.db.rows = {}], ok |-> TRUE]

\* DELETE FROM migrations WHERE name = ?
removeExecutedMigration(c, name) ==
    IF Fails(c) \/ ~c.db.table
    THEN [c |-> Tick(c), ok |-> FALSE]
    ELSE [c |-> [Tick(c) EXCEPT !.db.rows = @ \ {name}], ok |-> TRUE]

\* A faulty CreateMigrationsTable: the table is dropped and created again,
\* which loses the records it held.
CreateMigrationsTable_Recreate(c) ==
    Ret(LET c0 == Call(c, "CreateMigrationsTable")
        IN IF Fails(c0)
           THEN [c |-> Tick(c0), err |-> Err("create table", 0)]
           ELSE [c |-> [Tick(c0) EXCEPT
                            !.db.table = TRUE, !.db.rows = {},
                            !.db.order = Append(Remove(@, TableId(c0.db.migrationTableName)),
                                                TableId(c0.db.migrationTableName))],
                 err |-> Nil])

\* SetMigrationTableName: the driver addresses the tracking table of that
\* name from now on; the table of the name it had stays in the database.
SetMigrationTableName(d, name) ==
    LET n == IF name = "" THEN "migrations" ELSE name
    IN IF n = d.migrationTableName THEN d
       ELSE [d EXCEPT !.migrationTableName = n,
                      !.table = d.alt.table, !.rows = d.alt.rows,
                      !.alt = [table |-> d.table, rows |-> d.rows]]

\* CREATE TABLE IF NOT EXISTS <migrationTableName>
CreateMigrationsTable(c) ==
    Ret(LET c0 == Call(c, "CreateMigrationsTable")
        IN IF Fails(c0)
           THEN [c |-> Tick(c0), err |-> Err("create table", 0)]
           ELSE IF c0.db.table
           THEN [c |-> Tick(c0), err |-> Nil]
           ELSE [c |-> [Tick(c0) EXCEPT
                            !.db.table = TRUE,
                            !.db.order = Append(@, TableId(c0.db.migrationTableName))],
                 err |-> Nil])

\* A faulty GetExecutedMigrations: the order is ascending whatever reverse is.
GetExecutedMigrations_Asc(c, reverse) ==
    Ret(LET c0 == Call(c, IF reverse THEN "GetExecutedMigrations(true)"
                                     ELSE "GetExecutedMigrations(false)")
        IN IF Fails(c0) \/ ~c0.db.table
           THEN [c |-> Tick(c0), list |-> <<>>, err |-> Err("query", 0)]
           ELSE [c |-> Tick(c0), list |-> SortAsc(c0.db.rows), err |-> Nil])

\* A faulty GetExecutedMigrations: an empty table is reported as an error
\* (no rows).
GetExecutedMigrations_ErrNoRows(c, reverse) ==
    Ret(LET c0 == Call(c, IF reverse THEN "GetExecutedMigrations(true)"
                                     ELSE "GetExecutedMigrations(false)")
        IN IF Fails(c0) \/ ~c0.db.table \/ c0.db.rows = {}
           THEN [c |-> Tick(c0), list |-> <<>>, err |-> Err("query", 0)]
           ELSE [c |-> Tick(c0),
                 list |-> IF reverse THEN SortDesc(c0.db.rows) ELSE SortAsc(c0.db.rows),
                 err |-> Nil])

\* A faulty GetExecutedMigrations: the rows read are never appended to the
\* result.
GetExecutedMigrations_NoAppend(c, reverse) ==
    Ret(LET c0 == Call(c, IF reverse THEN "GetExecutedMigrations(true)"
                                     ELSE "GetExecutedMigrations(false)")
        IN IF Fails(c0) \/ ~c0.db.table
           THEN [c |-> Tick(c0), list |-> <<>>, err |-> Err("query", 0)]
           ELSE [c |-> Tick(c0), list |-> <<>>, err |-> Nil])

\* SELECT name, executed_at FROM migrations ORDER BY name ASC|DESC
GetExecutedMigrations(c, reverse) ==
    Ret(LET c0 == Call(c, IF reverse THEN "GetExecutedMigrations(true)"
                                     ELSE "GetExecutedMigrations(false)")
        IN IF Fails(c0) \/ ~c0.db.table
           THEN [c |-> Tick(c0), list |-> <<>>, err |-> Err("query", 0)]
           ELSE [c |-> Tick(c0),
                 list |-> IF reverse THEN SortDesc(c0.db.rows) ELSE SortAsc(c0.db.rows),
                 err |-> Nil])

\* A faulty ApplyMigrations: after a failure it reports the error to
\* onFailed and goes on with the next migration.
RECURSIVE ApplyFrom_GoOn(_, _, _)
ApplyFrom_GoOn(c, migs, i) ==
    IF i > Len(migs) THEN [c |-> c, err |-> Nil]
    ELSE LET mig == migs[i]
             r1 == executeMigrationSQL(Log(c, "onRunning", mig.name), mig.up)
         IN IF ~r1.ok
            THEN LET rest == ApplyFrom_GoOn(Log(r1.c, "onFailed", mig.name), migs, i + 1)
                 IN [c |-> rest.c, err |-> Err("failed to apply migration", mig.name)]
            ELSE LET r2 == insertExecutedMigration(Log(r1.c, "up", mig.name), mig.name)
                 IN IF ~r2.ok
                    THEN LET rest == ApplyFrom_GoOn(Log(r2.c, "onFailed", mig.name),
                                                    migs, i + 1)
                         IN [c |-> rest.c, err |-> Err("failed to record migration", mig.name)]
                    ELSE ApplyFrom_GoOn(Log(Log(r2.c, "insert", mig.name), "onSuccess", mig.name),
                                        migs, i + 1)

\* ApplyMigrations' loop, from the i-th migration of the batch on.
RECURSIVE ApplyFrom(_, _, _)
ApplyFrom(c, migs, i) ==
    IF i > Len(migs) THEN [c |-> c, err |-> Nil]
    ELSE LET mig == migs[i]
             r1 == executeMigrationSQL(Log(c, "onRunning", mig.name), mig.up)
         IN IF ~r1.ok
            THEN [c |-> Log(r1.c, "onFailed", mig.name),
                  err |-> Err("failed to apply migration", mig.name)]
            ELSE LET r2 == insertExecutedMigration(Log(r1.c, "up", mig.name), mig.name)
                 IN IF ~r2.ok
                    THEN [c |-> Log(r2.c, "onFailed", mig.name),
                          err |-> Err("failed to record migration", mig.name)]
                    ELSE ApplyFrom(Log(Log(r2.c, "insert", mig.name), "onSuccess", mig.name),
                                   migs, i + 1)

ApplyMigrations(c, migs) ==
    Ret(ApplyFrom([Call(c, "ApplyMigrations") EXCEPT !.applied = migs], migs, 1))

\* A faulty UnapplyMigrations: after a failure it reports the error to
\* onFailed and goes on with the next migration.
RECURSIVE UnapplyFrom_GoOn(_, _, _)
UnapplyFrom_GoOn(c, migs, i) ==
    IF i > Len(migs) THEN [c |-> c, err |-> Nil]
    ELSE LET mig == migs[i]
             r1 == executeMigrationSQL(Log(c, "onRunning", mig.name), mig.down)
         IN IF ~r1.ok
            THEN LET rest == UnapplyFrom_GoOn(Log(r1.c, "onFailed", mig.name), migs, i + 1)
                 IN [c |-> rest.c, err |-> Err("failed to unapply migration", mig.name)]
            ELSE LET r2 == removeExecutedMigration(Log(r1.c, "down", mig.name), mig.name)
                 IN IF ~r2.ok
                    THEN LET rest == UnapplyFrom_GoOn(Log(r2.c, "onFailed", mig.name),
                                                      migs, i + 1)
                         IN [c |-> rest.c,
                             err |-> Err("failed to remove migration record", mig.name)]
                    ELSE UnapplyFrom_GoOn(Log(Log(r2.c, "delete", mig.name), "onSuccess", mig.name),
                                          migs, i + 1)

\* A faulty UnapplyMigrations: it returns nil after the first migration of
\* the batch.
UnapplyFrom_First(c, migs, i) ==
    IF i > Len(migs) THEN [c |-> c, err |-> Nil]
    ELSE LET mig == migs[i]
             r1 == executeMigrationSQL(Log(c, "onRunning", mig.name), mig.down)
         IN IF ~r1.ok
            THEN [c |-> Log(r1.c, "onFailed", mig.name),
                  err |-> Err("failed to unapply migration", mig.name)]
            ELSE LET r2 == removeExecutedMigration(Log(r1.c, "down", mig.name), mig.name)
                 IN IF ~r2.ok
                    THEN [c |-> Log(r2.c, "onFailed", mig.name),
                          err |-> Err("failed to remove migration record", mig.name)]
                    ELSE [c |-> Log(Log(r2.c, "delete", mig.name), "onSuccess", mig.name),
                          err |-> Nil]

\* UnapplyMigrations' loop, from the i-th migration of the batch on.
RECURSIVE UnapplyFrom(_, _, _)
UnapplyFrom(c, migs, i) ==
    IF i > Len(migs) THEN [c |-> c, err |-> Nil]
    ELSE LET mig == migs[i]
             r1 == executeMigrationSQL(Log(c, "onRunning", mig.name), mig.down)
         IN IF ~r1.ok
            THEN [c |-> Log(r1.c, "onFailed", mig.name),
                  err |-> Err("failed to unapply migration", mig.name)]
            ELSE LET r2 == removeExecutedMigration(Log(r1.c, "down", mig.name), mig.name)
                 IN IF ~r2.ok
                    THEN [c |-> Log(r2.c, "onFailed", mig.name),
                          err |-> Err("failed to remove migration record", mig.name)]
                    ELSE UnapplyFrom(Log(Log(r2.c, "delete", mig.name), "onSuccess", mig.name),
                                     migs, i + 1)

UnapplyMigrations(c, migs) ==
    Ret(UnapplyFrom([Call(c, "UnapplyMigrations") EXCEPT !.unapplied = migs], migs, 1))

\* DROP TABLE IF EXISTS, one statement per table of the list; the rows of
\* a tracking table go with it.
RECURSIVE DropFrom(_, _, _)
DropFrom(c, tableNames, i) ==
    IF i > Len(tableNames) THEN [c |-> c, err |-> Nil]
    ELSE IF Fails(c)
         THEN [c |-> Tick(c), err |-> Err("failed to drop table", tableNames[i])]
         ELSE LET t == tableNames[i]
                  c1 == IF t = TableId(c.db.migrationTableName)
                        THEN [Tick(c) EXCEPT !.db.table = FALSE, !.db.rows = {},
                                             !.db.order = Remove(@, t)]
                        ELSE IF t <= 0
                        THEN [Tick(c) EXCEPT !.db.alt = [table |-> FALSE, rows |-> {}],
                                             !.db.order = Remove(@, t)]
                        ELSE [Tick(c) EXCEPT !.db.objs = @ \ {t},
                                             !.db.order = Remove(@, t)]
              IN DropFrom(Stmt(c1, "DROP TABLE", t), tableNames, i + 1)

\* The user tables sqlite_master lists, in the order of their creation (the
\* query has no ORDER BY).
UserTables(d) == d.order

\* The ways reading the table list of database d can go wrong. Whatever the
\* row rows.Scan fails on, the call returns there and then, with nothing
\* dropped: one row stands for all.
RowFaults(d) ==
    {NoRowFault} \cup
    {[kind |-> "next", at |-> i] : i \in 1 .. Len(UserTables(d))} \cup
    (IF UserTables(d) = <<>> THEN {} ELSE {[kind |-> "scan", at |-> 1]})

\* The loop `for rows.Next()`: the names read before rows.Next returns
\* false, at the end of the rows or at the row it fails on; rows.Err() is
\* not looked at.
ReadTableNames(c) ==
    IF c.rowFault.kind = "next" /\ c.rowFault.at <= Len(UserTables(c.db))
    THEN SubSeq(UserTables(c.db), 1, c.rowFault.at - 1)
    ELSE UserTables(c.db)

CleanDatabase(c) ==
    Ret(LET c0 == Call(c, "CleanDatabase")
        IN IF Fails(c0)
           THEN [c |-> Tick(c0), err |-> Err("failed to disable FK checks", 0)]
           ELSE LET c1 == Stmt([Tick(c0) EXCEPT !.db.fk = FALSE], "PRAGMA foreign_keys = OFF", 0)
                IN IF Fails(c1)
                   THEN [c |-> Tick(c1), err |-> Err("failed to query tables", 0)]
                   ELSE LET c2 == Stmt(Tick(c1), "SELECT name FROM sqlite_master", 0)
                            tableNames == ReadTableNames(c2)
                        IN IF c2.rowFault.kind = "scan"
                              /\ c2.rowFault.at <= Len(UserTables(c2.db))
                           THEN [c |-> c2, err |-> Err("failed to scan table name", 0)]
                           ELSE IF Len(tableNames) = 0
                           THEN [c |-> IF Fails(c2) THEN Tick(c2)
                                       ELSE Stmt([Tick(c2) EXCEPT !.db.fk = TRUE],
                                                 "PRAGMA foreign_keys = ON", 0),
                                 err |-> Nil]
                           ELSE LET r == DropFrom(c2, tableNames, 1)
                                IN IF r.err # Nil THEN r
                                   ELSE IF Fails(r.c)
                                   THEN [c |-> Tick(r.c),
                                         err |-> Err("failed to re-enable FK checks", 0)]
                                   ELSE [c |-> Stmt([Tick(r.c) EXCEPT !.db.fk = TRUE],
                                                    "PRAGMA foreign_keys = ON", 0),
                                         err |-> Nil])

(***************************************************************************)
(* GoMigration: the orchestration engine                                   *)
(***************************************************************************)

\* The Migration values of a sequence of names.
Migrations(names) == [i \in 1 .. Len(names) |-> Migration(names[i])]

MigrationNames(migs) == [i \in 1 .. Len(migs) |-> migs[i].name]

Min(a, b) == IF a < b THEN a ELSE b

\* pending = registered \ executed, ascending by name.
Pending(reg, executed) == Migrations(SortAsc(reg \ Range(executed)))

Migrate(c, reg) ==
    LET r1 == CreateMigrationsTable(c)
    IN IF r1.err # Nil THEN [c |-> r1.c, err |-> r1.err]
       ELSE LET r2 == GetExecutedMigrations(r1.c, FALSE)
            IN IF r2.err # Nil THEN [c |-> r2.c, err |-> r2.err]
               ELSE LET pending == Pending(reg, r2.list)
                    IN IF Len(pending) = 0 THEN [c |-> r2.c, err |-> Nil]
                       ELSE ApplyMigrations(r2.c, pending)

\* A faulty Fresh: the result of CleanDatabase is not looked at.
Fresh_IgnoreClean(c, reg) == Migrate(CleanDatabase(c).c, reg)

Fresh(c, reg) ==
    LET r1 == CleanDatabase(c)
    IN IF r1.err # Nil
       THEN [c |-> r1.c, err |-> Err("failed to clean database", 0)]
       ELSE Migrate(r1.c, reg)

\* A faulty Clean: the backend's error is returned as it is.
Clean_Unwrapped(c) == CleanDatabase(c)

Clean(c) ==
    LET r1 == CleanDatabase(c)
    IN IF r1.err # Nil
       THEN [c |-> r1.c, err |-> Err("failed to clean database", 0)]
       ELSE r1

\* The records to unapply, each looked up in the registry for its down
\* script: the first name the registry does not hold, or 0.
FirstMissing(reg, names) ==
    IF \A i \in 1 .. Len(names) : names[i] \in reg THEN 0
    ELSE names[CHOOSE i \in 1 .. Len(names) :
                   /\ names[i] \notin reg
                   /\ \A j \in 1 .. i - 1 : names[j] \in reg]

\* The names of a sequence that the registry holds, in the same order.
RECURSIVE Known(_, _)
Known(reg, names) ==
    IF names = <<>> THEN <<>>
    ELSE (IF Head(names) \in reg THEN <<Head(names)>> ELSE <<>>) \o Known(reg, Tail(names))

\* A faulty unapply: records of unregistered migrations are skipped.
Unapply_Skip(c, reg, names) ==
    IF Len(Known(reg, names)) = 0 THEN [c |-> c, err |-> Nil]
    ELSE UnapplyMigrations(c, Migrations(Known(reg, names)))

\* Rollback's and Reset's unapply of the selected records, each looked up in
\* the registry first.
Unapply(c, reg, names) ==
    IF Len(names) = 0 THEN [c |-> c, err |-> Nil]
    ELSE IF FirstMissing(reg, names) # 0
    THEN [c |-> c, err |-> Err("migration not found", FirstMissing(reg, names))]
    ELSE UnapplyMigrations(c, Migrations(names))

Rollback(c, reg, step) ==
    LET r1 == GetExecutedMigrations(c, TRUE)
    IN IF r1.err # Nil THEN [c |-> r1.c, err |-> r1.err]
       ELSE Unapply(r1.c, reg, SubSeq(r1.list, 1, Min(step, Len(r1.list))))

Reset(c, reg) ==
    LET r1 == GetExecutedMigrations(c, TRUE)
    IN IF r1.err # Nil THEN [c |-> r1.c, err |-> r1.err]
       ELSE IF Len(r1.list) = 0 THEN [c |-> r1.c, err |-> Nil]
       ELSE LET r2 == Unapply(r1.c, reg, r1.list)
            IN IF r2.err # Nil THEN r2
               ELSE Migrate(r2.c, reg)

\* One listing entry per registered migration, ascending by name.
Entries(reg, executed) ==
    LET names == SortAsc(reg)
    IN [i \in 1 .. Len(names) |->
           [name |-> names[i], isExecuted |-> names[i] \in Range(executed)]]

List(c, reg) ==
    LET r1 == CreateMigrationsTable(c)
    IN IF r1.err # Nil THEN [c |-> r1.c, err |-> r1.err, list |-> <<>>]
       ELSE LET r2 == GetExecutedMigrations(r1.c, FALSE)
            IN IF r2.err # Nil THEN [c |-> r2.c, err |-> r2.err, list |-> <<>>]
               ELSE [c |-> r2.c, err |-> Nil, list |-> Entries(reg, r2.list)]

\* The configurations New is called with: none (nil), one without a Driver,
\* a complete one.
Configs == {"nil", "noDriver", "ok"}

\* A faulty New: a configuration without Driver is accepted.
New_NoDriverCheck(cfg) ==
    IF cfg = "nil" THEN [q |-> "nil", err |-> Err("ErrConfigNotProvided", 0)]
    ELSE [q |-> "engine", err |-> Nil]

\* New(config): the engine, or nil and a configuration error.
New(cfg) ==
    IF cfg = "nil" THEN [q |-> "nil", err |-> Err("ErrConfigNotProvided", 0)]
    ELSE IF cfg = "noDriver" THEN [q |-> "nil", err |-> Err("ErrDriverNotProvided", 0)]
    ELSE [q |-> "engine", err |-> Nil]

\* The place in names of the first name the registry holds already.
IndexOfFirst(reg, names) ==
    CHOOSE i \in 1 .. Len(names) :
        /\ names[i] \in reg
        /\ \A j \in 1 .. i - 1 : names[j] \notin reg

\* A faulty duplicate check: it never finds a duplicate.
RegisterErr_Silent(reg, names) == Nil

\* Register(migrations...): no name may be in the registry already; the
\* check comes before any migration is added.
RegisterErr(reg, names) ==
    IF \A i \in 1 .. Len(names) : names[i] \notin reg THEN Nil
    ELSE Err("registered more than once",
             names[CHOOSE i \in 1 .. Len(names) :
                       /\ names[i] \in reg
                       /\ \A j \in 1 .. i - 1 : names[j] \notin reg])

\* A faulty Register: each migration is checked and added in turn, so those
\* listed before the duplicate stay in the registry.
Registered_Partial(reg, names) ==
    IF RegisterErr(reg, names) = Nil THEN reg \cup Range(names)
    ELSE reg \cup {names[j] : j \in 1 .. IndexOfFirst(reg, names) - 1}

\* The registry after Register(names...): a map keyed by name, here its keys.
Registered(reg, names) ==
    IF RegisterErr(reg, names) # Nil THEN reg ELSE reg \cup Range(names)

(***************************************************************************)
(* The command line: the rollback command                                  *)
(***************************************************************************)

\* The characters of the values given to --step.
FlagChars == {"-", "0", "1", "2", "x"}

\* The longest value given to --step.
MaxFlagLen == 2

Digits == {"0", "1", "2"}

\* The --step flag: whether it was given, and its value (1 when it was not).
NoFlag == [changed |-> FALSE, value |-> <<"1">>]

Flags ==
    {NoFlag} \cup
    {[changed |-> TRUE, value |-> v] :
        v \in UNION {[1 .. k -> FlagChars] : k \in 0 .. MaxFlagLen}}

DigitValue(ch) == CASE ch = "0" -> 0 [] ch = "1" -> 1 [] ch = "2" -> 2

RECURSIVE Decimal(_)
Decimal(s) ==
    IF s = <<>> THEN 0
    ELSE 10 * Decimal(SubSeq(s, 1, Len(s) - 1)) + DigitValue(s[Len(s)])

\* strconv.Atoi: an optional sign, then one decimal digit or more.
Atoi(s) ==
    LET signed == Len(s) > 0 /\ s[1] \in {"+", "-"}
        body == IF signed THEN Tail(s) ELSE s
    IN IF body = <<>> \/ \E i \in 1 .. Len(body) : body[i] \notin Digits
       THEN [val |-> 0, err |-> Err("invalid syntax", 0)]
       ELSE [val |-> IF signed /\ s[1] = "-" THEN 0 - Decimal(body) ELSE Decimal(body),
             err |-> Nil]

\* What the command does once it has its step: one call of Rollback.
CallRollback(c, reg, step) ==
    LET r == Rollback(c, reg, step)
    IN [c |-> r.c, err |-> r.err, called |-> <<step>>,
        log |-> IF r.err # Nil THEN <<"Error rolling back migrations:">> ELSE <<>>]

\* A faulty rollback command: the step is not checked against 1.
RollbackCommand_NoRangeCheck(c, reg, flag) ==
    IF ~flag.changed THEN CallRollback(c, reg, 1)
    ELSE IF Atoi(flag.value).err # Nil
    THEN [c |-> c, err |-> Nil, called |-> <<>>, log |-> <<"Invalid step:">>]
    ELSE CallRollback(c, reg, Atoi(flag.value).val)

\* The Run function of the rollback command.
RollbackCommand(c, reg, flag) ==
    IF ~flag.changed THEN CallRollback(c, reg, 1)
    ELSE IF Atoi(flag.value).err # Nil
    THEN [c |-> c, err |-> Nil, called |-> <<>>, log |-> <<"Invalid step:">>]
    ELSE IF Atoi(flag.value).val < 1
    THEN [c |-> c, err |-> Nil, called |-> <<>>, log |-> <<"Step must be greater than 0">>]
    ELSE CallRollback(c, reg, Atoi(flag.value).val)

(***************************************************************************)
(* The state machine                                                       *)
(***************************************************************************)

VARIABLES
    migrations, \* the engine's registry: the names of q.migrations
    db,         \* the database
    last,       \* the public operation that has just returned: its inputs,
                \* the backend calls it made and its result (op "": none)
    prev,       \* the operation that returned before the current one, when it
                \* was a Migrate or an ApplyMigrations that returned nil: its
                \* result, its batch, the rows before it
    everRegistered, \* the names registered at some point, with any engine
    procs       \* the processes that run Migrate at the same time: where each
                \* is in its Migrate and what it has done

vars == <<migrations, db, last, prev, everRegistered, procs>>

\* The processes that migrate the same database concurrently.
Procs == {1, 2}

\* A process that is not running Migrate.
IdleProc ==
    [pc |-> "idle", pending |-> <<>>, i |-> 0, err |-> Nil, tried |-> {}, inserted |-> {}]

NoPrev == [op |-> "", ret |-> Nil, applied |-> <<>>, rows |-> {}]

Idle ==
    [op |-> "", step |-> 0, names |-> <<>>, reg |-> {}, pre |-> EmptyDB,
     failAt |-> 0, cancelAt |-> 0, n |-> 0, ret |-> Nil, calls |-> <<>>,
     rets |-> <<>>, steps |-> <<>>, applied |-> <<>>, unapplied |-> <<>>,
     list |-> <<>>, before |-> NoPrev, cfg |-> "", q |-> "", sql |-> <<>>,
     flag |-> NoFlag, called |-> <<>>, log |-> <<>>, rowFault |-> NoRowFault,
     tableName |-> ""]

Init ==
    /\ migrations = {}
    /\ db = EmptyDB
    /\ last = Idle
    /\ prev = NoPrev
    /\ everRegistered = {}
    /\ procs = [p \in Procs |-> IdleProc]

\* What an operation that ran in context r.c and returned r.err leaves behind.
Done(op, step, r, list) ==
    /\ db' = r.c.db
    /\ last' = [op |-> op, step |-> step, names |-> <<>>, reg |-> migrations,
                pre |-> db, failAt |-> r.c.failAt, cancelAt |-> r.c.cancelAt,
                n |-> r.c.n, ret |-> r.err,
                calls |-> r.c.calls, rets |-> r.c.rets, steps |-> r.c.steps,
                applied |-> MigrationNames(r.c.applied),
                unapplied |-> MigrationNames(r.c.unapplied), list |-> list,
                before |-> IF op \in {"Migrate", "Rollback", "Reset", "List", "UnapplyMigrations"}
                           THEN prev ELSE NoPrev,
                cfg |-> "", q |-> "", sql |-> r.c.sql,
                flag |-> NoFlag, called |-> <<>>, log |-> <<>>,
                rowFault |-> r.c.rowFault, tableName |-> ""]
    /\ prev' = NoPrev
    /\ UNCHANGED <<migrations, everRegistered, procs>>

\* The statements at which the database may fail: any the operation issues.
FaultPoints(r) == 0 .. r.c.n

\* One thing goes wrong in a call of the engine: when reading the rows does,
\* no statement fails.
OneFault(rf, points) == IF rf = NoRowFault THEN points ELSE {0}

\* Sequences of distinct names, of length 1 .. MaxRegister.
NameSeqs ==
    {s \in UNION {[1 .. k -> Names] : k \in 1 .. MaxRegister} :
        \A i, j \in 1 .. Len(s) : i # j => s[i] # s[j]}

\* New(config): a fresh engine with an empty registry, on the same database;
\* when New returns nil the caller is left with the engine it had.
DoNew ==
    /\ last.op = ""
    /\ \E cfg \in Configs :
        /\ migrations' = IF New(cfg).err = Nil THEN {} ELSE migrations
        /\ last' = [Idle EXCEPT !.op = "New", !.pre = db, !.reg = migrations,
                                !.cfg = cfg, !.q = New(cfg).q, !.ret = New(cfg).err]
    /\ prev' = NoPrev
    /\ UNCHANGED <<db, everRegistered, procs>>

DoRegister ==
    /\ last.op = ""
    /\ \E names \in NameSeqs :
        /\ migrations' = Registered(migrations, names)
        /\ last' = [Idle EXCEPT !.op = "Register", !.names = names, !.pre = db,
                                !.reg = migrations,
                                !.ret = RegisterErr(migrations, names)]
        /\ prev' = NoPrev
        /\ everRegistered' = everRegistered \cup Registered(migrations, names)
        /\ UNCHANGED <<db, procs>>

DoMigrate ==
    /\ last.op = ""
    /\ \E f \in FaultPoints(Migrate(NewCtx(db, 0), migrations)) :
        Done("Migrate", 0, Migrate(NewCtx(db, f), migrations), <<>>)

DoFresh ==
    /\ last.op = ""
    /\ \E rf \in RowFaults(db) :
        \E f \in OneFault(rf, FaultPoints(Fresh(RowFaultCtx(db, 0, rf), migrations))) :
            Done("Fresh", 0, Fresh(RowFaultCtx(db, f, rf), migrations), <<>>)

DoReset ==
    /\ last.op = ""
    /\ \E f \in FaultPoints(Reset(NewCtx(db, 0), migrations)) :
        Done("Reset", 0, Reset(NewCtx(db, f), migrations), <<>>)

DoRollback ==
    /\ last.op = ""
    /\ \E step \in 1 .. MaxName + 1 :
        \E f \in FaultPoints(Rollback(NewCtx(db, 0), migrations, step)) :
            Done("Rollback", step, Rollback(NewCtx(db, f), migrations, step), <<>>)

DoClean ==
    /\ last.op = ""
    /\ \E rf \in RowFaults(db) :
        \E f \in OneFault(rf, FaultPoints(Clean(RowFaultCtx(db, 0, rf)))) :
            Done("Clean", 0, Clean(RowFaultCtx(db, f, rf)), <<>>)

DoList ==
    /\ last.op = ""
    /\ \E f \in FaultPoints(List(NewCtx(db, 0), migrations)) :
        LET r == List(NewCtx(db, f), migrations)
        IN Done("List", 0, r, r.list)

\* The caller takes the result; the engine is ready for the next call.
Return ==
    /\ last.op # ""
    /\ last' = Idle
    /\ prev' = IF last.op = "Migrate" \/ (last.op = "ApplyMigrations" /\ last.ret = Nil)
               THEN [op |-> last.op, ret |-> last.ret, applied |-> last.applied,
                     rows |-> last.pre.rows]
               ELSE NoPrev
    /\ UNCHANGED <<migrations, db, everRegistered, procs>>

Next ==
    \/ DoNew
    \/ DoRegister
    \/ DoMigrate
    \/ DoFresh
    \/ DoReset
    \/ DoRollback
    \/ DoClean
    \/ DoList
    \/ Return

Spec == Init /\ [][Next]_vars

(***************************************************************************)
(* The backend on its own: a caller of the SqliteDriver methods            *)
(***************************************************************************)

DrvCreateMigrationsTable ==
    /\ last.op = ""
    /\ \E f \in FaultPoints(CreateMigrationsTable(NewCtx(db, 0))) :
        Done("CreateMigrationsTable", 0, CreateMigrationsTable(NewCtx(db, f)), <<>>)

DrvApplyMigrations ==
    /\ last.op = ""
    /\ \E names \in NameSeqs :
        \E f \in FaultPoints(ApplyMigrations(NewCtx(db, 0), Migrations(names))) :
            Done("ApplyMigrations", 0,
                 ApplyMigrations(NewCtx(db, f), Migrations(names)), <<>>)

DrvUnapplyMigrations ==
    /\ last.op = ""
    /\ \E names \in NameSeqs :
        \E f \in FaultPoints(UnapplyMigrations(NewCtx(db, 0), Migrations(names))) :
            Done("UnapplyMigrations", 0,
                 UnapplyMigrations(NewCtx(db, f), Migrations(names)), <<>>)

DrvCleanDatabase ==
    /\ last.op = ""
    /\ \E rf \in RowFaults(db) :
        \E f \in FaultPoints(CleanDatabase(RowFaultCtx(db, 0, rf))) :
            Done("CleanDatabase", 0, CleanDatabase(RowFaultCtx(db, f, rf)), <<>>)

\* The arguments SetMigrationTableName is called with.
TableNameArgs == {""} \cup TableNames

DrvSetMigrationTableName ==
    /\ last.op = ""
    /\ \E name \in TableNameArgs :
        /\ db' = SetMigrationTableName(db, name)
        /\ last' = [Idle EXCEPT !.op = "SetMigrationTableName", !.pre = db,
                                !.reg = migrations, !.tableName = name]
    /\ prev' = NoPrev
    /\ UNCHANGED <<migrations, everRegistered, procs>>

NextDriver ==
    \/ DrvCreateMigrationsTable
    \/ DrvApplyMigrations
    \/ DrvUnapplyMigrations
    \/ DrvCleanDatabase
    \/ Return

SpecDriver == Init /\ [][NextDriver]_vars

\* The driver called directly, by a user who also changes the name of the
\* tracking table between calls.
NextTableName ==
    \/ DrvSetMigrationTableName
    \/ DrvCreateMigrationsTable
    \/ DrvApplyMigrations
    \/ DrvUnapplyMigrations
    \/ DrvCleanDatabase
    \/ Return

SpecTableName == Init /\ [][NextTableName]_vars

(***************************************************************************)
(* The backend under a caller whose ctx is canceled during the call        *)
(***************************************************************************)

\* ApplyMigrations with a ctx that is canceled while one of its statements is
\* in flight; that statement completes, or is interrupted and fails.
DrvApplyCanceled ==
    /\ last.op = ""
    /\ \E names \in NameSeqs :
        \E k \in 1 .. ApplyMigrations(NewCtx(db, 0), Migrations(names)).c.n :
            \E f \in {0, k} :
                Done("ApplyMigrations", 0,
                     ApplyMigrations(CancelCtx(db, f, k), Migrations(names)), <<>>)

DrvUnapplyCanceled ==
    /\ last.op = ""
    /\ \E names \in NameSeqs :
        \E k \in 1 .. UnapplyMigrations(NewCtx(db, 0), Migrations(names)).c.n :
            \E f \in {0, k} :
                Done("UnapplyMigrations", 0,
                     UnapplyMigrations(CancelCtx(db, f, k), Migrations(names)), <<>>)

NextCancel ==
    \/ DrvCreateMigrationsTable
    \/ DrvApplyCanceled
    \/ DrvUnapplyCanceled
    \/ Return

SpecCancel == Init /\ [][NextCancel]_vars

\* The rollback command of the CLI, run with the --step flag given or not.
CliRollback ==
    /\ last.op = ""
    /\ \E flag \in Flags :
        \E f \in FaultPoints(RollbackCommand(NewCtx(db, 0), migrations, flag)) :
            LET r == RollbackCommand(NewCtx(db, f), migrations, flag)
            IN /\ db' = r.c.db
               /\ last' = [Idle EXCEPT !.op = "RollbackCommand", !.reg = migrations,
                                       !.pre = db, !.failAt = f, !.n = r.c.n,
                                       !.ret = r.err, !.calls = r.c.calls,
                                       !.rets = r.c.rets, !.steps = r.c.steps,
                                       !.unapplied = MigrationNames(r.c.unapplied),
                                       !.flag = flag, !.called = r.called,
                                       !.log = r.log]
    /\ prev' = NoPrev
    /\ UNCHANGED <<migrations, everRegistered, procs>>

NextCli ==
    \/ DoRegister
    \/ DoMigrate
    \/ CliRollback
    \/ Return

SpecCli == Init /\ [][NextCli]_vars

(***************************************************************************)
(* Two processes that run Migrate against the same database, with engines  *)
(* that hold the same registry; one action per statement sent              *)
(***************************************************************************)

\* Both processes are started, with the registry reg, when none is running.
ConStart ==
    /\ \A p \in Procs : procs[p].pc \in {"idle", "done"}
    /\ \E reg \in SUBSET Names \ {{}} :
        /\ migrations' = reg
        /\ everRegistered' = everRegistered \cup reg
    /\ procs' = [p \in Procs |-> [IdleProc EXCEPT !.pc = "create"]]
    /\ UNCHANGED <<db, last, prev>>

\* Migrate: CreateMigrationsTable.
ConCreateMigrationsTable(p) ==
    /\ procs[p].pc = "create"
    /\ LET r == CreateMigrationsTable(NewCtx(db, 0))
       IN /\ db' = r.c.db
          /\ procs' = [procs EXCEPT ![p].pc = IF r.err = Nil THEN "fetch" ELSE "done",
                                    ![p].err = r.err]
    /\ UNCHANGED <<migrations, last, prev, everRegistered>>

\* Migrate: GetExecutedMigrations(false) and the pending migrations.
ConGetExecutedMigrations(p) ==
    /\ procs[p].pc = "fetch"
    /\ LET r == GetExecutedMigrations(NewCtx(db, 0), FALSE)
           pending == MigrationNames(Pending(migrations, r.list))
       IN /\ db' = r.c.db
          /\ procs' = [procs EXCEPT
                 ![p].pc = IF r.err # Nil \/ pending = <<>> THEN "done" ELSE "script",
                 ![p].err = r.err,
                 ![p].pending = IF r.err # Nil THEN <<>> ELSE pending,
                 ![p].i = 1]
    /\ UNCHANGED <<migrations, last, prev, everRegistered>>

\* ApplyMigrations: the up script of the next pending migration.
ConExecuteUp(p) ==
    /\ procs[p].pc = "script"
    /\ LET mig == Migration(procs[p].pending[procs[p].i])
           r == executeMigrationSQL(NewCtx(db, 0), mig.up)
       IN /\ db' = r.c.db
          /\ procs' = [procs EXCEPT
                 ![p].pc = IF r.ok THEN "insert" ELSE "done",
                 ![p].err = IF r.ok THEN Nil ELSE Err("failed to apply migration", mig.name),
                 ![p].tried = @ \cup {mig.name}]
    /\ UNCHANGED <<migrations, last, prev, everRegistered>>

\* ApplyMigrations: the record of the migration whose up script has run.
ConInsertExecuted(p) ==
    /\ procs[p].pc = "insert"
    /\ LET name == procs[p].pending[procs[p].i]
           r == insertExecutedMigration(NewCtx(db, 0), name)
       IN /\ db' = r.c.db
          /\ procs' = [procs EXCEPT
                 ![p].pc = IF r.ok /\ procs[p].i < Len(procs[p].pending)
                           THEN "script" ELSE "done",
                 ![p].err = IF r.ok THEN Nil ELSE Err("failed to record migration", name),
                 ![p].i = IF r.ok THEN @ + 1 ELSE @,
                 ![p].inserted = IF r.ok THEN @ \cup {name} ELSE @]
    /\ UNCHANGED <<migrations, last, prev, everRegistered>>

NextConcurrent ==
    \/ ConStart
    \/ \E p \in Procs : ConCreateMigrationsTable(p)
    \/ \E p \in Procs : ConGetExecutedMigrations(p)
    \/ \E p \in Procs : ConExecuteUp(p)
    \/ \E p \in Procs : ConInsertExecuted(p)

SpecConcurrent == Init /\ [][NextConcurrent]_vars

(***************************************************************************)
(* Properties                                                              *)
(***************************************************************************)

\* s is strictly ascending (so it holds no name twice).
Ascending(s) == \A i \in 1 .. Len(s) - 1 : s[i] < s[i + 1]

Descending(s) == \A i \in 1 .. Len(s) - 1 : s[i] > s[i + 1]

\* How often the last operation called the backend method `what`.
Calls(what) == Cardinality({i \in 1 .. Len(last.calls) : last.calls[i] = what})

\* The names of the steps of kind ev of the last operation, in order.
StepNames(ev) ==
    LET idx == {i \in 1 .. Len(last.steps) : last.steps[i].ev = ev}
        RECURSIVE Pick(_)
        Pick(i) == IF i > Len(last.steps) THEN <<>>
                   ELSE (IF i \in idx THEN <<last.steps[i].name>> ELSE <<>>) \o Pick(i + 1)
    IN Pick(1)

\* The last operation got as far as computing the pending migrations of a
\* Migrate: neither CreateMigrationsTable nor GetExecutedMigrations failed.
MigrateGotPending == last.op = "Migrate" /\ last.failAt \notin {1, 2}

\* ApplyMigrations failed at one migration of its batch.
ApplyFailed == last.ret.msg \in {"failed to apply migration", "failed to record migration"}

\* The place of name m in the sequence s of distinct names (0: not there).
IndexOf(s, m) == IF m \in Range(s) THEN CHOOSE i \in 1 .. Len(s) : s[i] = m ELSE 0

\* C1: Migrate hands ApplyMigrations exactly the registered migrations that
\* are not executed, each once, in one batch ascending by name; when the
\* executed names were all registered and it returns nil, the executed set
\* is the registered set.
C1_MigrateAppliesPending ==
    MigrateGotPending =>
        /\ Range(last.applied) = last.reg \ last.pre.rows
        /\ Ascending(last.applied)
        /\ Calls("ApplyMigrations") = (IF last.applied = <<>> THEN 0 ELSE 1)
        /\ (last.ret = Nil /\ last.pre.rows \subseteq last.reg) => db.rows = last.reg

C1_Witness ==
    /\ last.op = "Migrate"
    /\ last.ret = Nil
    /\ last.pre.rows # {}
    /\ last.pre.rows \subseteq last.reg
    /\ Len(last.applied) >= 2

\* The steps of the last operation that write: a script run, a record
\* inserted or removed.
Writes ==
    {i \in 1 .. Len(last.steps) : last.steps[i].ev \in {"up", "insert", "down", "delete"}}

\* C2: a Migrate that directly follows a Migrate that returned nil runs no up
\* script and inserts or removes no record, and returns nil unless the
\* database fails under it.
C2_MigrateIdempotent ==
    (last.op = "Migrate" /\ last.before.op = "Migrate" /\ last.before.ret = Nil) =>
        /\ Writes = {}
        /\ last.applied = <<>>
        /\ db.rows = last.pre.rows
        /\ db.objs = last.pre.objs
        /\ last.failAt = 0 => last.ret = Nil

C2_Witness ==
    /\ last.op = "Migrate"
    /\ last.before.op = "Migrate"
    /\ last.before.ret = Nil
    /\ Len(last.before.applied) >= 2
    /\ last.ret = Nil

\* The steps of the apply phase of the last operation (a Reset unapplies
\* first: four steps for each migration it unapplied).
ApplySteps == SubSeq(last.steps, 4 * Len(last.unapplied) + 1, Len(last.steps))

\* What ApplyMigrations does for a migration it applies, in order.
AppliedSteps(m) ==
    << [ev |-> "onRunning", name |-> m], [ev |-> "up", name |-> m],
       [ev |-> "insert", name |-> m], [ev |-> "onSuccess", name |-> m] >>

\* C3: when ApplyMigrations fails at mk, the first migration of its batch
\* whose script or record insertion fails, m1..m(k-1) are recorded, mk..mn
\* are not, nothing is attempted after mk, and the error names mk.
C3_ApplyHaltsOnFirstFailure ==
    (last.applied # <<>> /\ ApplyFailed) =>
        LET k == IndexOf(last.applied, last.ret.name)
        IN /\ k >= 1
           /\ \A j \in 1 .. k - 1 :
                  /\ last.applied[j] \in db.rows
                  /\ SubSeq(ApplySteps, 4 * j - 3, 4 * j) = AppliedSteps(last.applied[j])
           /\ \A j \in k .. Len(last.applied) : last.applied[j] \notin db.rows
           /\ SubSeq(ApplySteps, 4 * k - 3, Len(ApplySteps)) =
                  IF last.ret.msg = "failed to apply migration"
                  THEN << [ev |-> "onRunning", name |-> last.ret.name],
                          [ev |-> "onFailed", name |-> last.ret.name] >>
                  ELSE << [ev |-> "onRunning", name |-> last.ret.name],
                          [ev |-> "up", name |-> last.ret.name],
                          [ev |-> "onFailed", name |-> last.ret.name] >>

C3_Witness ==
    /\ last.op = "Migrate"
    /\ Len(last.applied) = 3
    /\ ApplyFailed
    /\ last.ret.name = last.applied[2]
    /\ last.applied[1] \in db.rows
    /\ last.applied[3] \notin db.rows

\* The last operation is a Migrate that directly follows a Migrate whose
\* ApplyMigrations failed, and it got as far as its pending migrations.
ResumedMigrate ==
    /\ MigrateGotPending
    /\ last.before.op = "Migrate"
    /\ last.before.ret.msg \in {"failed to apply migration", "failed to record migration"}

\* The batch of the failed Migrate from its failing migration on.
FailedSuffix ==
    SubSeq(last.before.applied, IndexOf(last.before.applied, last.before.ret.name),
           Len(last.before.applied))

\* The migrations the failed Migrate recorded before it failed.
FailedPrefix ==
    {last.before.applied[j] : j \in 1 .. IndexOf(last.before.applied, last.before.ret.name) - 1}

\* C4 as stated: a Migrate after a Migrate that failed at mk hands
\* ApplyMigrations exactly mk and the pending migrations after it, ascending,
\* re-applies nothing the failed call recorded, and when it returns nil the
\* executed set equals the registered set.
C4_ResumeAsStated ==
    ResumedMigrate =>
        /\ last.applied = FailedSuffix
        /\ Ascending(last.applied)
        /\ Range(last.applied) \cap FailedPrefix = {}
        /\ last.ret = Nil => db.rows = last.reg

\* C4, amended: as above, but when the second call returns nil every
\* registered migration is executed; the executed set equals the registered
\* set when the tracking table held no record of an unregistered name.
C4_ResumeAfterFailure ==
    ResumedMigrate =>
        /\ last.applied = FailedSuffix
        /\ Ascending(last.applied)
        /\ Range(last.applied) \cap FailedPrefix = {}
        /\ FailedPrefix \subseteq last.pre.rows
        /\ last.ret = Nil =>
               /\ last.reg \subseteq db.rows
               /\ db.rows = last.reg \cup last.before.rows

C4_Witness ==
    /\ ResumedMigrate
    /\ last.ret = Nil
    /\ Len(last.before.applied) = 3
    /\ last.before.ret.name = last.before.applied[2]
    /\ Len(last.applied) = 2
    /\ db.rows = last.reg

\* C5 as stated: after a Migrate that returns an error, a migration of its
\* batch (with a script to run) has an execution record if and only if its
\* up script was executed.
C5_RecordIffExecuted ==
    (last.op = "Migrate" /\ last.ret # Nil) =>
        \A m \in Range(last.applied) :
            HasScripts(m) => (m \in db.rows <=> m \in Range(StepNames("up")))

\* The last operation is an UnapplyMigrations that returned nil, of the
\* migrations that the ApplyMigrations directly before it applied, nil too.
UnappliedWhatWasApplied ==
    /\ last.op = "UnapplyMigrations"
    /\ last.ret = Nil
    /\ last.before.op = "ApplyMigrations"
    /\ last.before.ret = Nil
    /\ Range(last.unapplied) = Range(last.before.applied)

\* C6: applying migrations to a record set S that holds none of them and
\* then unapplying them, both successfully, leaves exactly S: their records
\* are gone and no other record is added or removed.
C6_Reversible ==
    UnappliedWhatWasApplied =>
        /\ Range(last.before.applied) \cap last.before.rows = {}
        /\ db.rows = last.before.rows
        /\ Range(last.unapplied) \cap db.rows = {}

C6_Witness ==
    /\ UnappliedWhatWasApplied
    /\ Len(last.unapplied) = 1
    /\ HasScripts(last.unapplied[1])
    /\ last.before.rows # {}
    /\ db.rows = last.before.rows

\* The last operation is a Rollback whose GetExecutedMigrations succeeded.
RollbackSelected == last.op = "Rollback" /\ last.pre.table /\ last.failAt # 1

\* The min(k, n) greatest of the n names of S.
Greatest(S, k) == {m \in S : Cardinality({x \in S : x > m}) < k}

\* The executed migrations a Rollback(step) is to unapply.
RollbackTargets == Greatest(last.pre.rows, last.step)

\* Every target is registered and its down script can run: nothing but a
\* failing database stops the unapply.
TargetsCanUnapply ==
    /\ RollbackTargets \subseteq last.reg
    /\ \A m \in RollbackTargets : HasScripts(m) => m \in last.pre.objs

\* C7: Rollback(step), step >= 1, hands UnapplyMigrations exactly the
\* min(step, n) executed migrations of greatest name, descending; when it
\* returns nil exactly their records are gone, unapplied in that order; every
\* other record stays whatever happens; and step > n is no error.
C7_RollbackUnappliesLast ==
    RollbackSelected =>
        /\ (last.unapplied # <<>> \/ (RollbackTargets # {} /\ RollbackTargets \subseteq last.reg)) =>
               /\ Range(last.unapplied) = RollbackTargets
               /\ Descending(last.unapplied)
               /\ Len(last.unapplied) = Min(last.step, Cardinality(last.pre.rows))
               /\ Calls("UnapplyMigrations") = 1
        /\ last.pre.rows \ RollbackTargets \subseteq db.rows
        /\ db.rows \subseteq last.pre.rows
        /\ last.ret = Nil =>
               /\ db.rows = last.pre.rows \ RollbackTargets
               /\ StepNames("delete") = last.unapplied
        /\ (last.failAt = 0 /\ TargetsCanUnapply) => last.ret = Nil

C7_Witness ==
    /\ RollbackSelected
    /\ last.ret = Nil
    /\ Cardinality(last.pre.rows) >= 2
    /\ last.step > Cardinality(last.pre.rows)
    /\ Len(last.unapplied) = Cardinality(last.pre.rows)
    /\ db.rows = {}

\* C8 as stated: a Reset that returns nil has unapplied every executed
\* migration, descending by name, and every registered migration is recorded
\* as executed, also when none was executed before.
C8_ResetAsStated ==
    (last.op = "Reset" /\ last.ret = Nil) =>
        /\ Range(last.unapplied) = last.pre.rows
        /\ Descending(last.unapplied)
        /\ last.reg \subseteq db.rows

\* C8, amended: a Reset that returns nil has unapplied every executed
\* migration, descending by name; when at least one migration was executed
\* it has then applied every registered migration, ascending, and the
\* executed set is the registered set; when none was executed it has applied
\* nothing and left the database as it was.
C8_ResetReappliesAll ==
    (last.op = "Reset" /\ last.ret = Nil) =>
        /\ Range(last.unapplied) = last.pre.rows
        /\ Descending(last.unapplied)
        /\ StepNames("delete") = last.unapplied
        /\ last.pre.rows # {} =>
               /\ Range(last.applied) = last.reg
               /\ Ascending(last.applied)
               /\ StepNames("insert") = last.applied
               /\ db.rows = last.reg
        /\ last.pre.rows = {} =>
               /\ last.applied = <<>>
               /\ db = last.pre

C8_Witness ==
    /\ last.op = "Reset"
    /\ last.ret = Nil
    /\ Len(last.unapplied) >= 2
    /\ Len(last.applied) > Len(last.unapplied)
    /\ db.rows = last.reg

\* C9: a Reset for which GetExecutedMigrations reports no executed migration
\* returns nil, and that GetExecutedMigrations(reverse = true) is the only
\* backend call it makes.
C9_ResetNothingExecuted ==
    (last.op = "Reset" /\ last.pre.table /\ last.pre.rows = {} /\ last.failAt # 1) =>
        /\ last.ret = Nil
        /\ last.calls = <<"GetExecutedMigrations(true)">>
        /\ last.n = 1
        /\ db = last.pre

C9_Witness ==
    /\ last.op = "Reset"
    /\ last.pre.table
    /\ last.pre.rows = {}
    /\ last.reg # {}
    /\ last.ret = Nil
    /\ last.calls = <<"GetExecutedMigrations(true)">>

\* C10: Fresh calls CleanDatabase before anything else; when it returns nil
\* it has applied every registered migration from an empty database and the
\* executed set is exactly the registered set, whatever was there before.
C10_FreshRebuilds ==
    last.op = "Fresh" =>
        /\ last.calls[1] = "CleanDatabase"
        /\ last.ret = Nil =>
               /\ Range(last.applied) = last.reg
               /\ Ascending(last.applied)
               /\ db.rows = last.reg
               /\ db.objs = {m \in last.reg : HasScripts(m)}
               /\ SubSeq(last.calls, 1, 3) =
                      <<"CleanDatabase", "CreateMigrationsTable", "GetExecutedMigrations(false)">>

Reverse(s) == [i \in 1 .. Len(s) |-> s[Len(s) + 1 - i]]

\* The last operation is a Rollback or Reset that unapplied migrations and
\* directly follows a Migrate that returned nil.
UnappliedAfterMigrate ==
    /\ last.op \in {"Rollback", "Reset"}
    /\ last.unapplied # <<>>
    /\ last.before.op = "Migrate"
    /\ last.before.ret = Nil

\* The Migrate before the last operation applied only names greater than
\* every name recorded before it: the records were made in name order.
AppliedInNameOrder ==
    \A m \in Range(last.before.applied) : \A x \in last.before.rows : x < m

\* C11 as stated: migrations are applied ascending by name, and a Rollback
\* or Reset unapplies first the migration applied most recently, the last
\* one of the batch of the Migrate before it, whatever Migrate and Register
\* calls came earlier.
C11_OrderingAsStated ==
    /\ Ascending(last.applied)
    /\ (UnappliedAfterMigrate /\ last.before.applied # <<>>) =>
           last.unapplied[1] = last.before.applied[Len(last.before.applied)]

\* C11, amended: every batch is applied ascending by name and unapplied
\* descending by name; the order of unapplication is the reverse of the order
\* of application when the migrations were applied in name order, that is
\* when no Migrate applied a name smaller than a name already recorded.
C11_OrderingByName ==
    /\ Ascending(last.applied)
    /\ StepNames("insert") = SubSeq(last.applied, 1, Len(StepNames("insert")))
    /\ Descending(last.unapplied)
    /\ StepNames("delete") = SubSeq(last.unapplied, 1, Len(StepNames("delete")))
    /\ (UnappliedAfterMigrate /\ AppliedInNameOrder) =>
           last.unapplied =
               SubSeq(Reverse(last.before.applied) \o SortDesc(last.before.rows),
                      1, Len(last.unapplied))

C11_Witness ==
    /\ UnappliedAfterMigrate
    /\ AppliedInNameOrder
    /\ last.op = "Rollback"
    /\ last.ret = Nil
    /\ last.before.rows # {}
    /\ Len(last.before.applied) >= 2
    /\ Len(last.unapplied) > Len(last.before.applied)
    /\ StepNames("delete") = Reverse(last.before.applied) \o SortDesc(last.before.rows)

\* The last operation is a Register one of whose names was in the registry.
RegisteredDuplicate == last.op = "Register" /\ Range(last.names) \cap last.reg # {}

\* C12: Register of a name that is in the registry returns an error saying
\* "registered more than once" that names a duplicate, and the registry still
\* holds that name, with the entry it had: the first registration.
C12_RegisterDuplicate ==
    RegisteredDuplicate =>
        /\ last.ret.msg = "registered more than once"
        /\ last.ret.name \in Range(last.names) \cap last.reg
        /\ last.ret.name \in migrations
        /\ Migrations(SortAsc(migrations \cap last.reg)) = Migrations(SortAsc(last.reg))

C12_Witness ==
    /\ last.op = "Register"
    /\ Len(last.names) = 1
    /\ last.names[1] \in last.reg
    /\ last.ret = Err("registered more than once", last.names[1])
    /\ last.names[1] \in migrations

\* C13: a Register one of whose names is in the registry fails and leaves
\* the registry as it was: none of its migrations is added, those listed
\* before the duplicate included; a Register without duplicate adds them all.
C13_RegisterAtomic ==
    last.op = "Register" =>
        /\ RegisteredDuplicate => (last.ret # Nil /\ migrations = last.reg)
        /\ ~RegisteredDuplicate =>
               (last.ret = Nil /\ migrations = last.reg \cup Range(last.names))

C13_Witness ==
    /\ RegisteredDuplicate
    /\ Len(last.names) >= 2
    /\ last.names[1] \notin last.reg
    /\ last.names[Len(last.names)] \in last.reg
    /\ last.ret # Nil
    /\ migrations = last.reg

\* The records the last operation, a Rollback or a Reset whose
\* GetExecutedMigrations succeeded, selected for unapplying.
Selected ==
    IF last.op = "Rollback" THEN Greatest(last.pre.rows, last.step) ELSE last.pre.rows

SelectedUnregistered ==
    /\ last.op \in {"Rollback", "Reset"}
    /\ last.pre.table
    /\ last.failAt # 1
    /\ Selected \ last.reg # {}

\* C14: a Rollback or Reset that selects a record whose migration is not
\* registered returns the lookup error, naming such a record; it does not
\* return nil, and the record is not removed.
C14_LookupError ==
    SelectedUnregistered =>
        /\ last.ret.msg = "migration not found"
        /\ last.ret.name \in Selected \ last.reg
        /\ Selected \ last.reg \subseteq db.rows
        /\ Calls("ApplyMigrations") = 0

C14_Witness ==
    /\ SelectedUnregistered
    /\ Selected \cap last.reg # {}
    /\ last.ret.msg = "migration not found"
    /\ db.rows = last.pre.rows

\* The names of the entries of the last listing, in order.
ListedNames == [i \in 1 .. Len(last.list) |-> last.list[i].name]

\* C15: a List that returns nil returns one entry per registered migration,
\* ascending by name, whose IsExecuted tells whether the name is in the
\* executed records at that time; a record of an unregistered name gives no
\* entry; directly after a Migrate that returned nil every entry is executed.
C15_ListJoinsRegistry ==
    (last.op = "List" /\ last.ret = Nil) =>
        /\ ListedNames = SortAsc(last.reg)
        /\ \A i \in 1 .. Len(last.list) :
               last.list[i].isExecuted <=> last.list[i].name \in db.rows
        /\ db.rows = last.pre.rows
        /\ (last.before.op = "Migrate" /\ last.before.ret = Nil) =>
               \A i \in 1 .. Len(last.list) : last.list[i].isExecuted

C15_Witness ==
    /\ last.op = "List"
    /\ last.ret = Nil
    /\ db.rows \ last.reg # {}
    /\ \E i, j \in 1 .. Len(last.list) :
           last.list[i].isExecuted /\ ~last.list[j].isExecuted

\* The places of the step ev of migration m among the steps of the last
\* operation.
Idx(ev, m) == {i \in 1 .. Len(last.steps) : last.steps[i] = [ev |-> ev, name |-> m]}

\* The batch of the last operation, a driver call, and the names of its
\* script and record steps.
Batch == IF last.op = "ApplyMigrations" THEN last.applied ELSE last.unapplied

ScriptStep == IF last.op = "ApplyMigrations" THEN "up" ELSE "down"

RecordStep == IF last.op = "ApplyMigrations" THEN "insert" ELSE "delete"

\* C16: in ApplyMigrations and UnapplyMigrations, a migration gets onRunning
\* at most once, before its script and its record statement; an attempted
\* migration gets exactly one of onSuccess and onFailed, after onRunning;
\* onSuccess comes after the script ran and the record was inserted
\* (removed); onFailed is the last callback of the call, which returns an
\* error naming that migration; a migration is attempted only after the one
\* before it got onSuccess.
C16_CallbackProtocol ==
    last.op \in {"ApplyMigrations", "UnapplyMigrations"} =>
        \A k \in 1 .. Len(Batch) :
            LET m == Batch[k]
            IN /\ Cardinality(Idx("onRunning", m)) <= 1
               /\ Cardinality(Idx("onSuccess", m)) + Cardinality(Idx("onFailed", m))
                      = Cardinality(Idx("onRunning", m))
               /\ \A r \in Idx("onRunning", m) :
                      \A i \in Idx(ScriptStep, m) \cup Idx(RecordStep, m)
                               \cup Idx("onSuccess", m) \cup Idx("onFailed", m) : r < i
               /\ \A q \in Idx("onSuccess", m) :
                      /\ \E i \in Idx(RecordStep, m) : i < q /\ \E j \in Idx(ScriptStep, m) : j < i
                      /\ (m \in db.rows) <=> (last.op = "ApplyMigrations")
               /\ \A f \in Idx("onFailed", m) :
                      /\ f = Len(last.steps)
                      /\ Idx(RecordStep, m) = {}
                      /\ last.ret # Nil
                      /\ last.ret.name = m
               /\ (k > 1 /\ Idx("onRunning", m) # {}) =>
                      \E q \in Idx("onSuccess", Batch[k - 1]) :
                          \A r \in Idx("onRunning", m) : q < r
               /\ (k = 1 \/ last.ret = Nil) => Idx("onRunning", m) # {}

C16_Witness ==
    /\ last.op = "ApplyMigrations"
    /\ Len(last.applied) = 2
    /\ last.ret = Err("failed to record migration", last.applied[2])
    /\ Idx("onSuccess", last.applied[1]) = {4}
    /\ Idx("onFailed", last.applied[2]) = {7}

\* The last operation is a driver call whose ctx was canceled while one of
\* its statements was in flight.
CanceledCall == last.op \in {"ApplyMigrations", "UnapplyMigrations"} /\ last.cancelAt # 0

\* The statements of the last operation that completed without error: a
\* script that is not empty, a record inserted or removed.
DoneStatements ==
    Cardinality({i \in 1 .. Len(last.steps) :
        \/ last.steps[i].ev \in {"insert", "delete"}
        \/ last.steps[i].ev \in {"up", "down"} /\ HasScripts(last.steps[i].name)})

\* The statements of the whole batch of the last operation.
BatchStatements ==
    Len(Batch) + Cardinality({k \in 1 .. Len(Batch) : HasScripts(Batch[k])})

\* C17 as stated: when ctx is canceled during a statement of a batch, no
\* statement after that one is carried out, no further statement is issued
\* once one was refused, and the call returns an error.
C17_CancelAsStated ==
    CanceledCall =>
        /\ DoneStatements <= last.cancelAt
        /\ last.n <= last.cancelAt + 1
        /\ last.ret # Nil

\* C17, amended: as above, but the call returns nil when the statement in
\* flight was the last one of the batch and completed without error; in
\* every other case it returns an error, which names the migration whose
\* statement was refused when a statement was issued after the cancellation.
C17_CancelStopsBatch ==
    CanceledCall =>
        /\ DoneStatements <= last.cancelAt
        /\ last.n <= last.cancelAt + 1
        /\ last.ret = Nil <=>
               (last.cancelAt = BatchStatements /\ DoneStatements = BatchStatements)
        /\ last.n > last.cancelAt =>
               /\ last.ret # Nil
               /\ DoneStatements = last.cancelAt
               /\ Idx("onFailed", last.ret.name) = {Len(last.steps)}
               /\ Idx(RecordStep, last.ret.name) = {}

C17_Witness ==
    /\ CanceledCall
    /\ last.op = "ApplyMigrations"
    /\ Len(last.applied) = 2
    /\ last.cancelAt = 2
    /\ last.n = 3
    /\ last.ret = Err("failed to apply migration", last.applied[2])
    /\ last.applied[1] \in db.rows
    /\ last.applied[2] \notin db.rows
    /\ last.applied[2] \notin db.objs

\* The public operations of the engine that call the backend.
PublicOps == {"Migrate", "Fresh", "Reset", "Rollback", "Clean", "List"}

\* The backend calls of the last operation that returned an error.
FailedCalls == {i \in 1 .. Len(last.rets) : last.rets[i] # Nil}

\* C18: when a backend call of a public operation returns an error, the
\* operation returns an error and that call is the last backend call it
\* makes, so it is not repeated; a Fresh whose CleanDatabase fails applies
\* nothing, and a Reset whose unapply fails does not go on to Migrate.
C18_NoSwallowNoRetry ==
    last.op \in PublicOps =>
        /\ Len(last.rets) = Len(last.calls)
        /\ \A i \in FailedCalls :
               /\ last.ret # Nil
               /\ i = Len(last.calls)
        /\ (last.op = "Fresh" /\ 1 \in FailedCalls) =>
               /\ last.calls = <<"CleanDatabase">>
               /\ last.applied = <<>>
               /\ Writes = {}
        /\ (last.op = "Reset" /\ Calls("UnapplyMigrations") = 1 /\ FailedCalls # {}
                /\ last.calls[Len(last.calls)] = "UnapplyMigrations") =>
               /\ last.calls = <<"GetExecutedMigrations(true)", "UnapplyMigrations">>
               /\ last.applied = <<>>
        /\ (last.ret # Nil /\ last.ret.msg # "migration not found") => FailedCalls # {}

C18_Witness ==
    /\ last.op = "Reset"
    /\ last.calls = <<"GetExecutedMigrations(true)", "UnapplyMigrations">>
    /\ FailedCalls = {2}
    /\ last.ret.msg = "failed to remove migration record"
    /\ Len(last.unapplied) >= 2
    /\ last.reg \ db.rows # {}

\* C19: Clean makes one backend call, CleanDatabase; when that returns an
\* error Clean returns the error "failed to clean database", and when it
\* returns nil Clean returns nil.
C19_CleanDelegates ==
    last.op = "Clean" =>
        /\ last.calls = <<"CleanDatabase">>
        /\ Len(last.rets) = 1
        /\ last.rets[1] # Nil => last.ret = Err("failed to clean database", 0)
        /\ last.rets[1] = Nil => last.ret = Nil

C19_Witness ==
    /\ last.op = "Clean"
    /\ last.pre.objs # {}
    /\ last.rets[1].msg = "failed to drop table"
    /\ last.ret.msg = "failed to clean database"

\* C20: in every state reached from an empty tracking table through
\* Register, Migrate, Fresh, Reset, Rollback and Clean (and List and New),
\* every name in the execution records was registered at some point.
C20_ExecutedWereRegistered == db.rows \subseteq everRegistered

C20_Witness ==
    /\ db.rows # {}
    /\ db.rows \ migrations # {}
    /\ migrations \ db.rows # {}
    /\ db.rows \subseteq everRegistered

\* C21: New(nil) returns nil and ErrConfigNotProvided, New of a configuration
\* without Driver returns nil and ErrDriverNotProvided, and neither these nor
\* a Register that finds a duplicate call a backend method or send a
\* statement to the database.
C21_ConfigErrorsBeforeIO ==
    /\ (last.op = "New" /\ last.cfg = "nil") =>
           (last.q = "nil" /\ last.ret = Err("ErrConfigNotProvided", 0))
    /\ (last.op = "New" /\ last.cfg = "noDriver") =>
           (last.q = "nil" /\ last.ret = Err("ErrDriverNotProvided", 0))
    /\ (last.op = "New" /\ last.cfg = "ok") => (last.q = "engine" /\ last.ret = Nil)
    /\ (last.op \in {"New", "Register"} /\ last.ret # Nil) =>
           /\ last.calls = <<>>
           /\ last.n = 0
           /\ db = last.pre
           /\ migrations = last.reg

C21_Witness ==
    /\ last.op = "New"
    /\ last.cfg = "noDriver"
    /\ last.q = "nil"
    /\ last.ret = Err("ErrDriverNotProvided", 0)
    /\ last.reg # {}
    /\ db.rows # {}

\* s is the beginning of t.
IsPrefix(s, t) == Len(s) <= Len(t) /\ s = SubSeq(t, 1, Len(s))

\* C22: Migrate calls CreateMigrationsTable, then GetExecutedMigrations with
\* reverse = false, then ApplyMigrations, each at most once and in that
\* order, stopping at the first that fails; when no registered migration is
\* pending (the empty registry included) and the first two calls succeed it
\* does not call ApplyMigrations and returns nil.
C22_MigrateCallProtocol ==
    last.op = "Migrate" =>
        /\ last.calls # <<>>
        /\ IsPrefix(last.calls,
                    <<"CreateMigrationsTable", "GetExecutedMigrations(false)", "ApplyMigrations">>)
        /\ Len(last.calls) = 1 <=> last.rets[1] # Nil
        /\ (Len(last.calls) >= 2 /\ last.rets[2] = Nil) =>
               (Len(last.calls) = 3 <=> last.reg \ last.pre.rows # {})
        /\ (Len(last.calls) = 2 /\ last.rets[2] = Nil) =>
               (last.ret = Nil /\ db.rows = last.pre.rows /\ db.objs = last.pre.objs)

C22_Witness ==
    /\ last.op = "Migrate"
    /\ last.reg # {}
    /\ last.reg \subseteq last.pre.rows
    /\ last.pre.rows \ last.reg # {}
    /\ last.calls = <<"CreateMigrationsTable", "GetExecutedMigrations(false)">>
    /\ last.ret = Nil

\* UnapplyMigrations failed at one migration of its batch, whose migrations
\* were all recorded when it was called.
UnapplyFailed ==
    /\ last.unapplied # <<>>
    /\ last.ret.msg \in {"failed to unapply migration", "failed to remove migration record"}
    /\ Range(last.unapplied) \subseteq last.pre.rows

\* What UnapplyMigrations does for a migration it unapplies, in order.
UnappliedSteps(m) ==
    << [ev |-> "onRunning", name |-> m], [ev |-> "down", name |-> m],
       [ev |-> "delete", name |-> m], [ev |-> "onSuccess", name |-> m] >>

\* C23: when UnapplyMigrations fails at mk, the first migration of its batch
\* whose down script or record removal fails, the records of m1..m(k-1) are
\* removed, those of mk..mn are still there, nothing is attempted after mk,
\* and the error names mk.
C23_UnapplyHaltsOnFirstFailure ==
    UnapplyFailed =>
        LET k == IndexOf(last.unapplied, last.ret.name)
        IN /\ k >= 1
           /\ \A j \in 1 .. k - 1 :
                  /\ last.unapplied[j] \notin db.rows
                  /\ SubSeq(last.steps, 4 * j - 3, 4 * j) = UnappliedSteps(last.unapplied[j])
           /\ \A j \in k .. Len(last.unapplied) : last.unapplied[j] \in db.rows
           /\ SubSeq(last.steps, 4 * k - 3, Len(last.steps)) =
                  IF last.ret.msg = "failed to unapply migration"
                  THEN << [ev |-> "onRunning", name |-> last.ret.name],
                          [ev |-> "onFailed", name |-> last.ret.name] >>
                  ELSE << [ev |-> "onRunning", name |-> last.ret.name],
                          [ev |-> "down", name |-> last.ret.name],
                          [ev |-> "onFailed", name |-> last.ret.name] >>
           /\ db.rows = last.pre.rows \ {last.unapplied[j] : j \in 1 .. k - 1}

C23_Witness ==
    /\ UnapplyFailed
    /\ Len(last.unapplied) = 3
    /\ last.ret = Err("failed to remove migration record", last.unapplied[2])
    /\ last.unapplied[1] \notin db.rows
    /\ last.unapplied[2] \in db.rows
    /\ last.unapplied[3] \in db.rows

\* The places of the statement `what` among the statements the CleanDatabase
\* of the last operation had carried out.
SqlIdx(what) == {i \in 1 .. Len(last.sql) : last.sql[i].stmt = what}

\* The user tables of the database before the last operation: the tracking
\* table (0) and the schema objects.
TablesBefore == Range(last.pre.order)

\* C24: CleanDatabase turns foreign-key enforcement off before it drops any
\* table and does not turn it on before the last drop; when the database
\* carries out every statement it drops every user table once, the tracking
\* table included, and then turns enforcement on again, whether there were
\* tables or not; when there were tables and it returns nil, enforcement is on.
C24_CleanDatabaseWrapsDrops ==
    last.op = "CleanDatabase" =>
        /\ last.sql # <<>> => last.sql[1].stmt = "PRAGMA foreign_keys = OFF"
        /\ \A i \in SqlIdx("DROP TABLE") :
               \A j \in SqlIdx("PRAGMA foreign_keys = ON") : i < j
        /\ last.failAt = 0 =>
               /\ last.ret = Nil
               /\ {last.sql[i].table : i \in SqlIdx("DROP TABLE")} = TablesBefore
               /\ Cardinality(SqlIdx("DROP TABLE")) = Cardinality(TablesBefore)
               /\ SqlIdx("PRAGMA foreign_keys = ON") = {Len(last.sql)}
               /\ db = [last.pre EXCEPT !.table = FALSE, !.rows = {}, !.objs = {},
                                         !.order = <<>>, !.fk = TRUE,
                                         !.alt = [table |-> FALSE, rows |-> {}]]
        /\ (last.ret = Nil /\ TablesBefore # {}) =>
               (db.fk /\ db.objs = {} /\ ~db.table /\ db.order = <<>>)

\* The statement of the last operation that failed is CleanDatabase's
\* PRAGMA foreign_keys = ON: the database refused to restore enforcement.
RestoreRefused ==
    /\ last.failAt # 0
    /\ last.failAt = last.n
    /\ last.ret.msg \in {"nil", "failed to re-enable FK checks"}

\* C25 as stated: when CleanDatabase has turned foreign-key enforcement off
\* and returns, with nil or with an error, enforcement is on again (unless
\* the database refused the statement that turns it on).
C25_ForeignKeysRestored ==
    (last.op = "CleanDatabase" /\ SqlIdx("PRAGMA foreign_keys = OFF") # {} /\ ~RestoreRefused) =>
        db.fk

\* The migrations both processes found pending.
BothPending == Range(procs[1].pending) \cap Range(procs[2].pending)

\* C26: no lock keeps two concurrent Migrate calls apart, but a record is
\* inserted by at most one of them: no name is recorded by both processes,
\* what they recorded is in the tracking table, and when both have returned
\* and some migration was pending for both, at least one of them has
\* returned an error.
C26_ConcurrentMigrate ==
    /\ procs[1].inserted \cap procs[2].inserted = {}
    /\ db.table => procs[1].inserted \cup procs[2].inserted \subseteq db.rows
    /\ (procs[1].pc = "done" /\ procs[2].pc = "done" /\ BothPending # {}) =>
           (procs[1].err # Nil \/ procs[2].err # Nil)
    /\ \A p \in Procs : \A m \in procs[p].inserted : m \in procs[p].tried

\* Both processes found the same migration pending and both ran its up
\* script; one recorded it and returned nil, the other's insert failed.
C26_Witness ==
    \E m \in BothPending :
        /\ m \in procs[1].tried \cap procs[2].tried
        /\ procs[1].pc = "done"
        /\ procs[2].pc = "done"
        /\ m \in procs[1].inserted
        /\ procs[1].err = Nil
        /\ procs[2].err = Err("failed to record migration", m)
        /\ m \in db.rows

\* C27: List leaves the execution records as they were and calls nothing
\* but CreateMigrationsTable and GetExecutedMigrations; Migrate removes no
\* execution record; Rollback adds none and does not call ApplyMigrations.
C27_ReadWriteSeparation ==
    /\ last.op = "List" =>
           /\ db.rows = last.pre.rows
           /\ db.objs = last.pre.objs
           /\ \A i \in 1..Len(last.calls) :
                  last.calls[i] \in {"CreateMigrationsTable", "GetExecutedMigrations(false)",
                                     "GetExecutedMigrations(true)"}
    /\ last.op = "Migrate" =>
           /\ last.pre.rows \subseteq db.rows
           /\ \A i \in 1..Len(last.calls) : last.calls[i] # "UnapplyMigrations"
    /\ last.op = "Rollback" =>
           /\ db.rows \subseteq last.pre.rows
           /\ \A i \in 1..Len(last.calls) : last.calls[i] # "ApplyMigrations"

\* List has returned the entries of a database that holds records, some of
\* them of registered migrations and some not.
C27_Witness ==
    /\ last.op = "List"
    /\ last.ret = Nil
    /\ last.pre.rows \cap last.reg # {}
    /\ last.pre.rows \ last.reg # {}
    /\ last.reg \ last.pre.rows # {}
    /\ Len(last.calls) = 2
    /\ db.rows = last.pre.rows

\* The value is the numeral of an integer that is at least 1: digits only,
\* after an optional "+", not all of them zeros.
PositiveNumeral(s) ==
    LET body == IF Len(s) > 0 /\ s[1] = "+" THEN Tail(s) ELSE s
    IN /\ body # <<>>
       /\ \A i \in 1 .. Len(body) : body[i] \in Digits
       /\ \E i \in 1 .. Len(body) : body[i] # "0"

\* C28: the rollback command calls Rollback at most once and only with a
\* step of 1 or more: with Rollback(ctx, 1) when --step is not given; when
\* the value of --step is no integer or is less than 1 it logs a message,
\* does not call Rollback, and no migration is unapplied.
C28_CliRollbackStep ==
    last.op = "RollbackCommand" =>
        /\ Len(last.called) <= 1
        /\ \A i \in 1 .. Len(last.called) : last.called[i] >= 1
        /\ ~last.flag.changed => last.called = <<1>>
        /\ (last.flag.changed /\ ~PositiveNumeral(last.flag.value)) =>
               /\ last.called = <<>>
               /\ last.log # <<>>
               /\ last.calls = <<>>
               /\ last.unapplied = <<>>
               /\ db = last.pre

\* The command was run with --step 0 on a database with executed
\* migrations: it logged the refusal and called nothing.
C28_Witness ==
    /\ last.op = "RollbackCommand"
    /\ last.flag = [changed |-> TRUE, value |-> <<"0">>]
    /\ last.pre.rows \cap last.reg # {}
    /\ last.called = <<>>
    /\ last.log = <<"Step must be greater than 0">>
    /\ db = last.pre

====
